---- MODULE Spec2Model ----
(***************************************************************************)
(* td_rlua: the typed bridge between a Rust host and an embedded Lua 5.3   *)
(* interpreter.  values.rs is the primitive codec (LuaPush / LuaRead for   *)
(* the integer kinds, the float kinds, String, bool and unit); userdata.rs *)
(* is the opaque value carrier (push_userdata, push_lightuserdata,         *)
(* read_userdata, the __gc destructor) and the native type registrar       *)
(* (LuaStruct: ensure_matetable, create, def, register).                   *)
(*                                                                         *)
(* The interpreter state is modelled as the Lua C API defines it: a value  *)
(* stack, a table heap, full userdata blocks with one metatable each, the  *)
(* single metatable shared by all light userdata, and the globals.         *)
(*                                                                         *)
(* Four specifications share the variables:                                *)
(*   SpecCodec    the primitive codec alone (values.rs);                   *)
(*   SpecCarrier  the carrier: pushes, reads, collection, destruction;     *)
(*   Spec         the registrar and the constructor it installs;           *)
(*   SpecBridge   the registrar together with read_userdata.               *)
(***************************************************************************)
EXTENDS Integers, Sequences, FiniteSets, TLC

VARIABLES
    stack,      \* the interpreter's value stack, bottom first
    tables,     \* the table heap: tables[id] = [data |-> key :> value, meta |-> id or 0,
                \* wrote |-> the keys the caller's metatable closure wrote]
    udata,      \* full userdata blocks, by id
    lightMeta,  \* the metatable shared by every light userdata (0: none)
    globals,    \* the global namespace, by name
    host,       \* host-owned storage passed by reference, by address
    defs,       \* per registered type, the def/register calls made so far
    lastOp      \* the operation that ran last, with its arguments and result

vars == <<stack, tables, udata, lightMeta, globals, host, defs, lastOp>>

(***************************************************************************)
(* Bounds of the model.                                                    *)
(***************************************************************************)
\* Stack slots the codec specification uses.
MaxCodecStack == 1
\* Stack slots the carrier and registrar specifications use.
MaxStack == 4
\* Metatables the pushes of the carrier build.
MaxMetatables == 2
\* Tables the registrar specification allocates.
MaxTables == 4
\* Full userdata blocks allocated.
MaxUdata == 1
\* Destructor runs on one block before which an explicit destroy call is made.
MaxDestructorRuns == 1

(***************************************************************************)
(* Lua values.  A value is a record [k |-> kind, v |-> payload].           *)
(***************************************************************************)
VNil == [k |-> "nil", v |-> 0]
VBool(b) == [k |-> "bool", v |-> b]
VInt(n) == [k |-> "int", v |-> n]
VFlt(f) == [k |-> "flt", v |-> f]
VStr(bs) == [k |-> "str", v |-> bs]
VTbl(id) == [k |-> "table", v |-> id]
VUdata(id) == [k |-> "udata", v |-> id]
VLight(addr) == [k |-> "light", v |-> addr]
VCFunc(wrapper, upvalue) == [k |-> "cfunc", v |-> <<wrapper, upvalue>>]

\* Option<T>
Some(x) == <<"Some", x>>
None == <<"None">>

(***************************************************************************)
(* Byte strings.  A string is the sequence of its bytes.                   *)
(***************************************************************************)
RECURSIVE Pow(_, _)
Pow(b, n) == IF n = 0 THEN 1 ELSE b * Pow(b, n - 1)

IsDigit(b) == b \in 48..57
\* C isspace: ' ', \t, \n, \v, \f, \r
IsSpace(b) == b = 32 \/ b \in 9..13

RECURSIVE DecDigits(_)
\* "%d" of a natural number
DecDigits(n) == IF n < 10 THEN <<48 + n>> ELSE DecDigits(n \div 10) \o <<48 + (n % 10)>>

RECURSIVE DigitsValue(_)
\* the value of a sequence of decimal digits (0 for the empty one)
DigitsValue(bs) ==
    IF bs = <<>> THEN 0
    ELSE 10 * DigitsValue(SubSeq(bs, 1, Len(bs) - 1)) + (bs[Len(bs)] - 48)

AllDigits(bs) == \A i \in 1..Len(bs) : IsDigit(bs[i])

HasNul(bs) == \E i \in 1..Len(bs) : bs[i] = 0

\* CStr::from_ptr: the bytes before the first NUL
TruncAtNul(bs) ==
    IF HasNul(bs)
    THEN SubSeq(bs, 1, (CHOOSE i \in 1..Len(bs) : bs[i] = 0 /\ \A j \in 1..(i - 1) : bs[j] # 0) - 1)
    ELSE bs

RECURSIVE FromUtf8Lossy(_)
\* String::from_utf8_lossy on ASCII and two-byte sequences: a byte that starts no
\* valid sequence becomes U+FFFD (EF BF BD).  Longer sequences do not occur in
\* the strings of this model.
FromUtf8Lossy(bs) ==
    IF bs = <<>> THEN <<>>
    ELSE IF bs[1] < 128 THEN <<bs[1]>> \o FromUtf8Lossy(Tail(bs))
    ELSE IF bs[1] \in 194..223 /\ Len(bs) >= 2 /\ bs[2] \in 128..191
         THEN <<bs[1], bs[2]>> \o FromUtf8Lossy(Tail(Tail(bs)))
    ELSE <<239, 191, 189>> \o FromUtf8Lossy(Tail(bs))

RECURSIVE TrimLeft(_)
TrimLeft(bs) == IF bs # <<>> /\ IsSpace(bs[1]) THEN TrimLeft(Tail(bs)) ELSE bs

RECURSIVE TrimRight(_)
TrimRight(bs) ==
    IF bs # <<>> /\ IsSpace(bs[Len(bs)]) THEN TrimRight(SubSeq(bs, 1, Len(bs) - 1)) ELSE bs

(***************************************************************************)
(* Integers.  TLC's integers are 32 bits wide, so the 32-bit kinds are     *)
(* modelled with 24 bits and the 64-bit ones (usize, lua_Integer) with 28; *)
(* the 8- and 16-bit kinds keep their widths.  What the casts depend on is *)
(* kept: every kind but usize is narrower than lua_Integer, and usize is   *)
(* as wide as lua_Integer but unsigned.                                    *)
(***************************************************************************)
IntKinds == {"i8", "i16", "i32", "u8", "u16", "u32", "usize"}
FloatKinds == {"f32", "f64"}
TextKinds == {"String", "str"}

Bits(K) ==
    CASE K \in {"i8", "u8"} -> 8
      [] K \in {"i16", "u16"} -> 16
      [] K \in {"i32", "u32"} -> 24
      [] K \in {"usize", "lua_Integer"} -> 28

Signed(K) == K \in {"i8", "i16", "i32", "lua_Integer"}

MinOf(K) == IF Signed(K) THEN 0 - Pow(2, Bits(K) - 1) ELSE 0
MaxOf(K) == IF Signed(K) THEN Pow(2, Bits(K) - 1) - 1 ELSE Pow(2, Bits(K)) - 1

\* `as` cast that forgets the sign: the low bits, read as unsigned
CastIntUnsigned(K, n) == n % Pow(2, Bits(K))

\* `n as K` between integer types: keep the low Bits(K) bits
CastInt(K, n) ==
    LET m == n % Pow(2, Bits(K))
    IN  IF Signed(K) /\ m >= Pow(2, Bits(K) - 1) THEN m - Pow(2, Bits(K)) ELSE m

(***************************************************************************)
(* Floats.  A float is <<class, n>>: <<"fin", n>> is n/4, <<"inf", s>> is  *)
(* the infinity of sign s, <<"nan", 0>> a quiet and <<"nan", 1>> a         *)
(* signaling NaN.  f64 has the quarters; f32 is the narrower format: the   *)
(* halves up to 16, beyond which a value narrows to infinity.              *)
(***************************************************************************)
Fin(n) == <<"fin", n>>
Inf(s) == <<"inf", s>>
NaN(s) == <<"nan", s>>

Sign(n) == IF n < 0 THEN 0 - 1 ELSE 1
Abs(n) == IF n < 0 THEN 0 - n ELSE n

\* `x as f64` for x: f32: exact; the conversion quiets a signaling NaN
F32ToF64(f) == IF f[1] = "nan" THEN NaN(0) ELSE f

\* the quotient num/den rounded to nearest, ties to even (the rounding of
\* strtod and of the narrowing cast)
RoundDiv(num, den) ==
    IF 2 * (num % den) > den \/ (2 * (num % den) = den /\ (num \div den) % 2 = 1)
    THEN (num \div den) + 1
    ELSE num \div den

\* a finite f64 of sign sgn narrowed to r halves: beyond 16 it overflows
NarrowFinite(sgn, r) == IF 2 * r > 64 THEN Inf(sgn) ELSE Fin(sgn * 2 * r)

\* `x as f32` for x: f64: round to nearest, ties to even; overflow gives infinity
F64ToF32(f) ==
    IF f[1] = "nan" THEN NaN(0)
    ELSE IF f[1] = "inf" THEN f
    ELSE NarrowFinite(Sign(f[2]), RoundDiv(Abs(f[2]), 2))

\* "%.14g" of a float, with ".0" added when it reads as an integer (lua_Number2str)
FormatFloat(f) ==
    IF f[1] = "nan" THEN <<110, 97, 110>>
    ELSE IF f[1] = "inf" THEN (IF f[2] < 0 THEN <<45>> ELSE <<>>) \o <<105, 110, 102>>
    ELSE LET a == Abs(f[2])
             frac == CASE a % 4 = 0 -> <<48>>
                       [] a % 4 = 1 -> <<50, 53>>
                       [] a % 4 = 2 -> <<53>>
                       [] a % 4 = 3 -> <<55, 53>>
         IN  (IF f[2] < 0 THEN <<45>> ELSE <<>>) \o DecDigits(a \div 4) \o <<46>> \o frac

\* "%d" of a lua_Integer
FormatInt(n) == (IF n < 0 THEN <<45>> ELSE <<>>) \o DecDigits(Abs(n))

\* l_str2d on a numeral with a point: ip "." fp as a float (in quarters)
Str2Frac(sgn, ip, fp) ==
    IF AllDigits(ip) /\ AllDigits(fp) /\ Len(ip) + Len(fp) >= 1
    THEN <<"flt", Fin(sgn * RoundDiv(4 * (DigitsValue(ip) * Pow(10, Len(fp)) + DigitsValue(fp)),
                                     Pow(10, Len(fp))))>>
    ELSE <<"fail">>

\* the place of the first point in a numeral
DotAt(body) == CHOOSE i \in 1..Len(body) : body[i] = 46

\* l_str2int, then l_str2d, on the numeral after its sign
Str2Unsigned(sgn, body) ==
    IF body # <<>> /\ AllDigits(body)
    THEN <<"int", sgn * DigitsValue(body)>>
    ELSE IF Cardinality({i \in 1..Len(body) : body[i] = 46}) = 1
    THEN Str2Frac(sgn, SubSeq(body, 1, DotAt(body) - 1),
                  SubSeq(body, DotAt(body) + 1, Len(body)))
    ELSE <<"fail">>

\* the numeral without the white space around it: its sign, then the rest
Str2Trimmed(t) ==
    Str2Unsigned(IF t # <<>> /\ t[1] = 45 THEN 0 - 1 ELSE 1,
                 IF t # <<>> /\ t[1] \in {43, 45} THEN Tail(t) ELSE t)

\* luaO_str2num: a string as a number (l_str2int, then l_str2d), "fail" when
\* the whole string is not a numeral.  Decimal numerals with an optional sign
\* and fraction; hexadecimal and exponent forms do not occur in this model.
Str2Num(bs) == Str2Trimmed(TrimRight(TrimLeft(bs)))

(***************************************************************************)
(* The Lua C API conversions the codec calls.                              *)
(***************************************************************************)
\* luaV_tointeger, mode 0: a float converts when it has an exact integer value
FloatToInteger(f) ==
    IF f[1] = "fin" /\ f[2] % 4 = 0 THEN <<TRUE, f[2] \div 4>> ELSE <<FALSE, 0>>

\* luaV_tointeger on the number a string converted to
NumToInteger(n) ==
    CASE n[1] = "int" -> <<TRUE, n[2]>>
      [] n[1] = "flt" -> FloatToInteger(n[2])
      [] OTHER -> <<FALSE, 0>>

\* lua_tointegerx(L, idx, &isnum): <<isnum, value>>
lua_tointegerx(x) ==
    CASE x.k = "int" -> <<TRUE, x.v>>
      [] x.k = "flt" -> FloatToInteger(x.v)
      [] x.k = "str" -> NumToInteger(Str2Num(x.v))
      [] OTHER -> <<FALSE, 0>>

\* luaV_tonumber_ on the number a string converted to
NumToNumber(n) ==
    CASE n[1] = "int" -> <<TRUE, Fin(4 * n[2])>>
      [] n[1] = "flt" -> <<TRUE, n[2]>>
      [] OTHER -> <<FALSE, Fin(0)>>

\* lua_tonumberx(L, idx, &isnum): <<isnum, value>>
lua_tonumberx(x) ==
    CASE x.k = "flt" -> <<TRUE, x.v>>
      [] x.k = "int" -> <<TRUE, Fin(4 * x.v)>>
      [] x.k = "str" -> NumToNumber(Str2Num(x.v))
      [] OTHER -> <<FALSE, Fin(0)>>

\* luaO_tostring: the number in the slot is replaced by its text
ToStringInPlace(bs) == <<TRUE, bs, VStr(bs)>>

\* lua_tolstring(L, idx, &len): <<not NULL, bytes, the slot afterwards>>; a
\* number in the slot is converted to a string in place
lua_tolstring(x) ==
    CASE x.k = "str" -> <<TRUE, x.v, x>>
      [] x.k = "int" -> ToStringInPlace(FormatInt(x.v))
      [] x.k = "flt" -> ToStringInPlace(FormatFloat(x.v))
      [] OTHER -> <<FALSE, <<>>, x>>

(***************************************************************************)
(* values.rs: LuaPush and LuaRead of the primitive kinds.                  *)
(***************************************************************************)
\* integer_impl!: push_to_lua pushes `self as lua_Integer`
PushInteger(K, n) == VInt(CastInt("lua_Integer", n))

\* integer_impl!: match success { 0 => None, _ => Some(val as $t) }
MatchInteger(K, r) == IF r[1] THEN Some(CastInt(K, r[2])) ELSE None

\* integer_impl!: lua_read_with_pop
ReadInteger(K, x) == MatchInteger(K, lua_tointegerx(x))

\* numeric_impl!: push_to_lua pushes `self as f64`
PushNumber(K, f) == VFlt(IF K = "f32" THEN F32ToF64(f) ELSE f)

\* numeric_impl!: match success { 0 => None, _ => Some(val as $t) }
MatchNumber(K, r) ==
    IF r[1] THEN Some(IF K = "f32" THEN F64ToF32(r[2]) ELSE r[2]) ELSE None

\* numeric_impl!: lua_read_with_pop
ReadNumber(K, x) == MatchNumber(K, lua_tonumberx(x))

\* CString::new(..).unwrap(): panics on an interior NUL byte
CStringNewPanics(bs) == HasNul(bs)

\* LuaPush for String and &str: lua_pushstring of the CString
PushString(bs) == VStr(TruncAtNul(bs))

\* LuaRead for String, after lua_tolstring: None for NULL, else the bytes up
\* to the first NUL, lossily as UTF-8
FromCStr(r, x) ==
    IF r[1] THEN <<Some(FromUtf8Lossy(TruncAtNul(r[2]))), r[3]>> ELSE <<None, x>>

\* LuaRead for String: <<result, the slot afterwards>>
ReadString(x) == FromCStr(lua_tolstring(x), x)

\* LuaPush for bool
PushBool(b) == VBool(b)

\* bool read by lua_toboolean without the lua_isboolean test: truthiness
ReadBoolTruthy(x) == IF x.k = "bool" THEN Some(x.v) ELSE Some(x.k # "nil")

\* LuaRead for bool
ReadBool(x) == IF x.k # "bool" THEN None ELSE Some(x.v)

\* LuaPush for ()
PushUnit == VNil

\* LuaRead for ()
ReadUnit(x) == Some(<<>>)

PrimKinds == IntKinds \cup FloatKinds \cup TextKinds \cup {"bool", "unit"}

\* the slot push_to_lua writes for a value v of kind K
Encode(K, v) ==
    CASE K \in IntKinds -> PushInteger(K, v)
      [] K \in FloatKinds -> PushNumber(K, v)
      [] K \in TextKinds -> PushString(v)
      [] K = "bool" -> PushBool(v)
      [] K = "unit" -> PushUnit

\* lua_read of kind K on a slot holding x: <<result, the slot afterwards>>
Decode(K, x) ==
    CASE K \in IntKinds -> <<ReadInteger(K, x), x>>
      [] K \in FloatKinds -> <<ReadNumber(K, x), x>>
      [] K = "String" -> ReadString(x)
      [] K = "bool" -> <<ReadBool(x), x>>
      [] K = "unit" -> <<ReadUnit(x), x>>

\* The values of each kind the codec specification pushes.
IntSamples(K) == {MinOf(K), 0, 1, MaxOf(K) - 1, MaxOf(K)}

F64Samples ==
    {Fin(0), Fin(1), Fin(10), Fin(0 - 10), Fin(12), Fin(13), Fin(15), Fin(64),
     Fin(400), Fin(0 - 401), Inf(1), Inf(0 - 1), NaN(0), NaN(1)}

F32Samples ==
    {Fin(0), Fin(2), Fin(10), Fin(0 - 10), Fin(12), Fin(64), Fin(0 - 64),
     Inf(1), Inf(0 - 1), NaN(0), NaN(1)}

\* "", "10", "-3", "2.5", " 7 ", "z", "1a", "e" acute, "a\0b", "\0"
TextSamples ==
    {<<>>, <<49, 48>>, <<45, 51>>, <<50, 46, 53>>, <<32, 55, 32>>, <<122>>,
     <<49, 97>>, <<195, 169>>, <<97, 0, 98>>, <<0>>}

Samples(K) ==
    CASE K \in IntKinds -> IntSamples(K)
      [] K = "f64" -> F64Samples
      [] K = "f32" -> F32Samples
      [] K \in TextKinds -> TextSamples
      [] K = "bool" -> BOOLEAN
      [] K = "unit" -> {<<>>}

NoOp == [op |-> "none"]

(***************************************************************************)
(* The codec specification.                                                *)
(***************************************************************************)
InitCodec ==
    /\ stack = <<>>
    /\ tables = <<>>
    /\ udata = <<>>
    /\ lightMeta = 0
    /\ globals = <<>>
    /\ host = <<>>
    /\ defs = <<>>
    /\ lastOp = NoOp

\* value.push_to_lua(lua) for a value v of kind K
PushToLua(K, v) ==
    /\ Len(stack) < MaxCodecStack
    /\ IF K \in TextKinds /\ CStringNewPanics(v)
       THEN /\ stack' = stack
            /\ lastOp' = [op |-> "push", K |-> K, value |-> v, res |-> "panic"]
       ELSE /\ stack' = Append(stack, Encode(K, v))
            /\ lastOp' = [op |-> "push", K |-> K, value |-> v, res |-> "ok"]
    /\ UNCHANGED <<tables, udata, lightMeta, globals, host, defs>>

\* the slot the last operation pushed, when it is still the top one
Pushed ==
    IF lastOp.op = "push" /\ lastOp.res = "ok"
    THEN <<lastOp.K, lastOp.value>>
    ELSE <<"none">>

\* K::lua_read(lua): decode the top slot as kind K
LuaRead(K) ==
    /\ stack # <<>>
    /\ \E r \in {Decode(K, stack[Len(stack)])} :
          /\ stack' = [stack EXCEPT ![Len(stack)] = r[2]]
          /\ lastOp' = [op |-> "read", K |-> K, slot |-> stack[Len(stack)],
                        res |-> r[1], of |-> Pushed]
    /\ UNCHANGED <<tables, udata, lightMeta, globals, host, defs>>

\* lua_pop(lua, 1) by the caller
CodecPop ==
    /\ stack # <<>>
    /\ stack' = SubSeq(stack, 1, Len(stack) - 1)
    /\ lastOp' = [op |-> "pop"]
    /\ UNCHANGED <<tables, udata, lightMeta, globals, host, defs>>

NextCodec ==
    \/ \E K \in PrimKinds : \E v \in Samples(K) : PushToLua(K, v)
    \/ \E K \in PrimKinds \ {"str"} : LuaRead(K)
    \/ CodecPop

SpecCodec == InitCodec /\ [][NextCodec]_vars

(***************************************************************************)
(* The carrier and the registrar (userdata.rs).                            *)
(***************************************************************************)
\* Host types.  A implements NewStruct (it can be registered); B does not.
Types == {"A", "B"}
RegTypes == {"A"}

\* the hash std::any::TypeId holds for a type (distinct types, distinct hashes)
TypeHash(T) == IF T = "A" THEN 17 ELSE 42

\* format!("{:?}", TypeId::of::<T>()): "TypeId { t: <hash> }"
FormatTypeId(T) ==
    <<84, 121, 112, 101, 73, 100, 32, 123, 32, 116, 58, 32>>
        \o DecDigits(TypeHash(T)) \o <<32, 125>>

\* NewStruct::name(): "A"
NameOf(T) == IF T = "A" THEN <<65>> ELSE <<66>>

Names == {NameOf(T) : T \in RegTypes}

\* "__typeid", "__gc", "__index", "__call" as pushed by push_to_lua
K_typeid == PushString(<<95, 95, 116, 121, 112, 101, 105, 100>>).v
K_gc == PushString(<<95, 95, 103, 99>>).v
K_index == PushString(<<95, 95, 105, 110, 100, 101, 120>>).v
K_call == PushString(<<95, 95, 99, 97, 108, 108>>).v

\* host storage handed over by reference: its addresses and the type at each
Addrs == {1, 2}
HostType(a) == IF a = 1 THEN "A" ELSE "B"

\* field and method names given to def and register: "x", "y"
FieldNames == {<<120>>, <<121>>}
\* the params given to def: the i32 values 1 and 2, and ()
DefParams == {<<"i32", 1>>, <<"i32", 2>>, <<"unit", <<>>>>}
\* the extern "C" functions given to register
NativeFns == {"native_fn"}

EmptyData == [x \in {} |-> VNil]
EmptyTable == [data |-> EmptyData, meta |-> 0, wrote |-> {}]

Range(s) == {s[i] : i \in 1..Len(s)}

\* lua_rawget / lua_gettable on a table without __index metamethod
RawGet(h, id, key) == IF key \in DOMAIN h[id].data THEN h[id].data[key] ELSE VNil

\* a table's entries after t[key] = val (a nil value removes the key)
SetField(data, key, val) ==
    IF val.k = "nil" THEN [x \in DOMAIN data \ {key} |-> data[x]]
    ELSE (key :> val) @@ data

\* lua_settable / lua_rawset on a table without __newindex metamethod
RawSet(h, id, key, val) == [h EXCEPT ![id].data = SetField(@, key, val)]

\* the closure pushed for "__gc": destructor_wrapper with destructor_impl::<T>
\* as its light userdata upvalue
DestructorClosure(T) == VCFunc("destructor_wrapper", <<"destructor_impl", T>>)

\* the closure pushed for "__call": constructor_wrapper with constructor_impl::<T>
ConstructorClosure(T) == VCFunc("constructor_wrapper", <<"constructor_impl", T>>)

\* What the caller's `metatable` closure writes into the table it is handed:
\* nothing, a field of its own, or an entry under the "__typeid" key.
BuilderChoices ==
    {EmptyData, (K_index :> VStr(<<120>>)), (K_typeid :> VStr(FormatTypeId("A")))}

\* metatable(LuaRead::lua_read(lua).unwrap()): the table after the closure ran
ApplyBuilder(data, b) == b @@ data

\* the entries push_userdata gives the metatable before the closure is called
OwnedMetatable(T) ==
    SetField(SetField(EmptyData, K_typeid, PushString(FormatTypeId(T))),
             K_gc, DestructorClosure(T))

\* the entries push_lightuserdata gives the metatable before the closure is called
LightMetatable(T) == SetField(EmptyData, K_typeid, PushString(FormatTypeId(T)))

\* a block lua_newuserdata returns, holding a T; luaC_checkfinalizer marks it
\* for finalization when the metatable set on it has a "__gc" entry
NewBlock(T, h, mt, how) ==
    [T |-> T, from |-> how, content |-> "value", meta |-> mt,
     marked |-> (mt # 0 /\ K_gc \in DOMAIN h[mt].data),
     gcdone |-> FALSE, freed |-> FALSE, torn |-> 0, junk |-> 0]

\* mem::uninitialized(): the bytes are whatever the build leaves there, the
\* old value's or others
UninitOutcomes == {"value", "garbage"}

\* destructor_impl::<T>: mem::replace(obj, mem::uninitialized()), the replaced
\* content dropped as a T
DestructorImpl(blk, uninit) ==
    [blk EXCEPT !.torn = IF blk.content = "value" THEN @ + 1 ELSE @,
                !.junk = IF blk.content = "value" THEN @ ELSE @ + 1,
                !.content = uninit]

\* lua_touserdata: the block of a full userdata, the pointer of a light one,
\* NULL for anything else
lua_touserdata(x) ==
    CASE x.k = "udata" -> <<"block", x.v>>
      [] x.k = "light" -> <<"host", x.v>>
      [] OTHER -> <<"NULL", 0>>

\* lua_getmetatable for the values lua_touserdata accepts: a full userdata has
\* a metatable of its own, all light userdata share one (0: none)
MetatableOf(x, ud, lm) ==
    CASE x.k = "udata" -> ud[x.v].meta
      [] x.k = "light" -> lm
      [] OTHER -> 0

InitCarrier ==
    /\ stack = <<>>
    /\ tables = <<>>
    /\ udata = <<>>
    /\ lightMeta = 0
    /\ globals = [n \in Names |-> VNil]
    /\ host = [a \in Addrs |-> "valid"]
    /\ defs = [T \in RegTypes |-> [vals |-> [f \in FieldNames |-> VNil], dropped |-> FALSE]]
    /\ lastOp = NoOp

Init ==
    /\ stack = <<>>
    /\ udata = <<>>
    /\ lightMeta = 0
    /\ host = [a \in Addrs |-> "valid"]
    /\ defs = [T \in RegTypes |-> [vals |-> [f \in FieldNames |-> VNil], dropped |-> FALSE]]
    /\ lastOp = NoOp
    \* the type's global name before registration: unbound, bound to a value
    \* that is no table, or bound to a table a script made
    /\ \/ /\ tables = <<>>
          /\ globals \in [Names -> {VNil, VInt(7)}]
       \/ /\ tables = <<EmptyTable>>
          /\ globals = [n \in Names |-> VTbl(1)]

\* push_userdata::<T>(data, lua, metatable)
PushUserdata(T, b) ==
    /\ Len(stack) < MaxStack
    /\ Len(udata) < MaxUdata
    /\ Len(tables) < MaxMetatables
    /\ LET mt == Len(tables) + 1
           h == Append(tables, [data |-> ApplyBuilder(OwnedMetatable(T), b), meta |-> 0,
                                wrote |-> DOMAIN b])
       IN  /\ tables' = h
           /\ udata' = Append(udata, NewBlock(T, h, mt, "push_userdata"))
           /\ stack' = Append(stack, VUdata(Len(udata) + 1))
           /\ lastOp' = [op |-> "push_userdata", ret |-> 1]
    /\ UNCHANGED <<lightMeta, globals, host, defs>>

\* push_lightuserdata::<T>(data, lua, metatable), data the host value at addr
PushLightuserdata(addr, b) ==
    /\ Len(stack) < MaxStack
    /\ Len(tables) < MaxMetatables
    /\ tables' = Append(tables, [data |-> ApplyBuilder(LightMetatable(HostType(addr)), b),
                                 meta |-> 0, wrote |-> DOMAIN b])
    \* lua_setmetatable on a light userdata sets the metatable of the type
    /\ lightMeta' = Len(tables) + 1
    /\ stack' = Append(stack, VLight(addr))
    /\ lastOp' = [op |-> "push_lightuserdata", ret |-> 1]
    /\ UNCHANGED <<udata, globals, host, defs>>

\* read_userdata::<T>(lua, index): <<result, the stack afterwards>>
ReadUserdataResult(T, index) ==
    LET x == stack[index]
        data_ptr == lua_touserdata(x)
        mt == MetatableOf(x, udata, lightMeta)
        \* lua_getmetatable pushed the metatable; "__typeid" is pushed and
        \* lua_gettable replaces it by the entry
        val == RawGet(tables, mt, K_typeid)
        r == ReadString(val)
    IN  IF data_ptr[1] = "NULL" THEN <<None, stack>>
        ELSE IF mt = 0 THEN <<None, stack>>
        ELSE IF r[1] = Some(FormatTypeId(T))
             THEN <<Some(data_ptr), stack>>
             ELSE <<None, stack \o <<VTbl(mt), r[2]>>>>

ReadUserdata(T, index) ==
    /\ index \in 1..Len(stack)
    /\ Len(stack) + 2 <= MaxStack
    /\ LET r == ReadUserdataResult(T, index)
       IN  /\ stack' = r[2]
           /\ lastOp' = [op |-> "read_userdata", T |-> T, index |-> index,
                         slot |-> stack[index], res |-> r[1]]
    /\ UNCHANGED <<tables, udata, lightMeta, globals, host, defs>>

\* lua_newuserdata by other host code: a full userdata with no metatable
NewUserdataRaw ==
    /\ Len(stack) < MaxStack
    /\ Len(udata) < MaxUdata
    /\ udata' = Append(udata, NewBlock("B", tables, 0, "foreign"))
    /\ stack' = Append(stack, VUdata(Len(udata) + 1))
    /\ lastOp' = [op |-> "lua_newuserdata"]
    /\ UNCHANGED <<tables, lightMeta, globals, host, defs>>

\* lua_pop(lua, 1) by the caller
Pop ==
    /\ stack # <<>>
    /\ stack' = SubSeq(stack, 1, Len(stack) - 1)
    /\ lastOp' = [op |-> "pop"]
    /\ UNCHANGED <<tables, udata, lightMeta, globals, host, defs>>

\* the "__gc" entry of a block's metatable, when it is the destructor closure
HasDestructor(blk) ==
    /\ blk.meta # 0
    /\ RawGet(tables, blk.meta, K_gc).k = "cfunc"
    /\ RawGet(tables, blk.meta, K_gc).v[1] = "destructor_wrapper"

Unreachable(id) == VUdata(id) \notin Range(stack)

\* A collection pass finds block id unreachable and marked for finalization:
\* the collector calls its "__gc" metamethod, once per block.
GcFinalize(id) ==
    /\ id \in 1..Len(udata)
    /\ Unreachable(id)
    /\ udata[id].marked /\ ~udata[id].gcdone /\ ~udata[id].freed
    /\ \E uninit \in UninitOutcomes :
          udata' = [udata EXCEPT ![id] =
                       [(IF HasDestructor(@) THEN DestructorImpl(@, uninit) ELSE @)
                           EXCEPT !.gcdone = TRUE]]
    /\ lastOp' = [op |-> "gc_finalize"]
    /\ UNCHANGED <<stack, tables, lightMeta, globals, host, defs>>

\* A later collection pass frees the block; no hook runs.
GcFree(id) ==
    /\ id \in 1..Len(udata)
    /\ Unreachable(id)
    /\ ~udata[id].freed
    /\ udata[id].gcdone \/ ~udata[id].marked
    /\ udata' = [udata EXCEPT ![id].freed = TRUE]
    /\ lastOp' = [op |-> "gc_free"]
    /\ UNCHANGED <<stack, tables, lightMeta, globals, host, defs>>

\* The explicit destroy call: a script calls the "__gc" closure of the value
\* in a slot on that value (destructor_wrapper, destructor_impl).
ExplicitDestroy(index) ==
    /\ index \in 1..Len(stack)
    /\ stack[index].k = "udata"
    /\ LET id == stack[index].v
       IN  /\ HasDestructor(udata[id])
           /\ udata[id].torn + udata[id].junk < MaxDestructorRuns
           /\ \E uninit \in UninitOutcomes :
                 udata' = [udata EXCEPT ![id] = DestructorImpl(@, uninit)]
           /\ lastOp' = [op |-> "explicit_destroy"]
    /\ UNCHANGED <<stack, tables, lightMeta, globals, host, defs>>

(***************************************************************************)
(* LuaStruct<T>: the registrar.                                            *)
(***************************************************************************)
\* lua.query::<LuaTable, _>(name): the table bound to the global name, 0 when
\* the name is unbound or bound to a value that is no table.  The LuaTable
\* handle gives its stack slot back when it is dropped.
QueryTable(g, name) == IF g[name].k = "table" THEN g[name].v ELSE 0

\* table.query::<LuaTable, _>("__index"): the table under the key, 0 when the
\* entry is missing or no table
QueryIndex(h, d) == IF RawGet(h, d, K_index).k = "table" THEN RawGet(h, d, K_index).v ELSE 0

\* table.empty_table("__index"): a new empty table stored under the key
EmptyTableAt(h, d, key) == RawSet(Append(h, EmptyTable), d, key, VTbl(Len(h) + 1))

\* index.set(name, param) and index.register(name, func): t[name] = value
TableSet(h, id, name, val) == RawSet(h, id, name, val)

\* ensure_matetable without the query: the descriptor is built on every call
DescriptorAlwaysMissing(g, T) == TRUE

\* the match of ensure_matetable: the descriptor is built when the query for
\* the global table gives None
DescriptorMissing(g, T) == QueryTable(g, NameOf(T)) = 0

\* the descriptor ensure_matetable builds: "__typeid", "__gc" and, by
\* lua_rawset, "__index" bound to the new table index
NewDescriptor(T, index) ==
    SetField(SetField(SetField(EmptyData, K_typeid, PushString(FormatTypeId(T))),
                      K_gc, DestructorClosure(T)),
             K_index, VTbl(index))

\* ensure_matetable: the heap and the globals afterwards
EnsureEffect(T, h, g) ==
    IF DescriptorMissing(g, T)
    THEN LET d == Len(h) + 1
         IN  [h |-> h \o <<[data |-> NewDescriptor(T, d + 1), meta |-> 0, wrote |-> {}],
                           EmptyTable>>,
              \* lua_setglobal
              g |-> [g EXCEPT ![NameOf(T)] = VTbl(d)]]
    ELSE [h |-> h, g |-> g]

\* create binding the constructor closure under "__index" instead of "__call"
ConstructorMetatableMiskeyed(T) == SetField(EmptyData, K_index, ConstructorClosure(T))

\* the metatable create sets on the descriptor
ConstructorMetatable(T) == SetField(EmptyData, K_call, ConstructorClosure(T))

\* create: the heap, the globals and the stack afterwards
CreateEffect(T, h, g, s) ==
    LET e == EnsureEffect(T, h, g)
        top == e.g[NameOf(T)]
    IN  IF top.k = "table"
        THEN [h |-> [Append(e.h, [data |-> ConstructorMetatable(T), meta |-> 0, wrote |-> {}])
                        EXCEPT ![top.v].meta = Len(e.h) + 1],
              g |-> e.g,
              \* the value lua_getglobal pushed stays: the lua_pop is commented out
              s |-> Append(s, top)]
        ELSE [h |-> e.h, g |-> e.g, s |-> Append(s, top)]

\* def whose None branch makes the "__index" table and forgets the set
DefEffectForgetsSet(T, h, g, name, val) ==
    LET d == QueryTable(g, NameOf(T))
    IN  IF d = 0 THEN h
        ELSE IF QueryIndex(h, d) # 0
             THEN TableSet(h, QueryIndex(h, d), name, val)
             ELSE EmptyTableAt(h, d, K_index)

\* def and register: the heap after name is bound to val in the type's
\* field/method table
DefEffect(T, h, g, name, val) ==
    LET d == QueryTable(g, NameOf(T))
    IN  IF d = 0 THEN h
        ELSE IF QueryIndex(h, d) # 0
             THEN TableSet(h, QueryIndex(h, d), name, val)
             ELSE TableSet(EmptyTableAt(h, d, K_index), Len(h) + 1, name, val)

\* the record of the def/register calls: the value last given for each name,
\* and whether a call came while no descriptor was published
NoteDef(T, name, val) ==
    [defs EXCEPT ![T].vals[name] = val,
                 ![T].dropped = @ \/ QueryTable(globals, NameOf(T)) = 0]

EnsureMatetable(T) ==
    /\ Len(EnsureEffect(T, tables, globals).h) <= MaxTables
    /\ LET e == EnsureEffect(T, tables, globals)
       IN  /\ tables' = e.h
           /\ globals' = e.g
    /\ lastOp' = [op |-> "ensure_matetable", T |-> T]
    /\ UNCHANGED <<stack, udata, lightMeta, host, defs>>

Create(T) ==
    /\ Len(CreateEffect(T, tables, globals, stack).h) <= MaxTables
    /\ Len(stack) < MaxStack
    /\ LET e == CreateEffect(T, tables, globals, stack)
       IN  /\ tables' = e.h
           /\ globals' = e.g
           /\ stack' = e.s
    /\ lastOp' = [op |-> "create", T |-> T]
    /\ UNCHANGED <<udata, lightMeta, host, defs>>

Def(T, name, P) ==
    /\ Len(DefEffect(T, tables, globals, name, Encode(P[1], P[2]))) <= MaxTables
    /\ tables' = DefEffect(T, tables, globals, name, Encode(P[1], P[2]))
    /\ defs' = NoteDef(T, name, Encode(P[1], P[2]))
    /\ lastOp' = [op |-> "def", T |-> T, name |-> name, val |-> Encode(P[1], P[2])]
    /\ UNCHANGED <<stack, udata, lightMeta, globals, host>>

Register(T, name, func) ==
    /\ Len(DefEffect(T, tables, globals, name, VCFunc(func, <<"none", "none">>))) <= MaxTables
    /\ tables' = DefEffect(T, tables, globals, name, VCFunc(func, <<"none", "none">>))
    /\ defs' = NoteDef(T, name, VCFunc(func, <<"none", "none">>))
    /\ lastOp' = [op |-> "register", T |-> T, name |-> name,
                  val |-> VCFunc(func, <<"none", "none">>)]
    /\ UNCHANGED <<stack, udata, lightMeta, globals, host>>

\* A script calls the published descriptor: its "__call" metamethod runs
\* constructor_wrapper, constructor_impl::<T>, and the call's one result is
\* left on the stack.
CallConstructor(T) ==
    /\ Len(stack) < MaxStack
    /\ Len(udata) < MaxUdata
    /\ QueryTable(globals, NameOf(T)) # 0
    /\ LET d == QueryTable(globals, NameOf(T))
       IN  /\ tables[d].meta # 0
           /\ RawGet(tables, tables[d].meta, K_call) = ConstructorClosure(T)
           \* lua_getglobal(T::name()); lua_setmetatable(lua, -2)
           /\ udata' = Append(udata, NewBlock(T, tables, d, "constructor"))
    /\ stack' = Append(stack, VUdata(Len(udata) + 1))
    /\ lastOp' = [op |-> "call_constructor", T |-> T]
    /\ UNCHANGED <<tables, lightMeta, globals, host, defs>>

NextCarrier ==
    \/ \E T \in Types : \E b \in BuilderChoices : PushUserdata(T, b)
    \/ \E a \in Addrs : \E b \in BuilderChoices : PushLightuserdata(a, b)
    \/ \E T \in Types : \E i \in 1..MaxStack : ReadUserdata(T, i)
    \/ NewUserdataRaw
    \/ Pop
    \/ \E id \in 1..MaxUdata : GcFinalize(id)
    \/ \E id \in 1..MaxUdata : GcFree(id)
    \/ \E i \in 1..MaxStack : ExplicitDestroy(i)

SpecCarrier == InitCarrier /\ [][NextCarrier]_vars


\* The registrar, the constructor it installs, and the caller's pops.
Next ==
    \/ \E T \in RegTypes : EnsureMatetable(T)
    \/ \E T \in RegTypes : Create(T)
    \/ \E T \in RegTypes : \E n \in FieldNames : \E P \in DefParams : Def(T, n, P)
    \/ \E T \in RegTypes : \E n \in FieldNames : \E f \in NativeFns : Register(T, n, f)
    \/ \E T \in RegTypes : CallConstructor(T)
    \/ Pop

Spec == Init /\ [][Next]_vars

\* The registrar together with read_userdata on the slots of its stack.
NextBridge ==
    \/ \E T \in RegTypes : EnsureMatetable(T)
    \/ \E T \in RegTypes : Create(T)
    \/ \E T \in RegTypes : \E n \in FieldNames : \E P \in DefParams : Def(T, n, P)
    \/ \E T \in RegTypes : \E n \in FieldNames : \E f \in NativeFns : Register(T, n, f)
    \/ \E T \in RegTypes : CallConstructor(T)
    \/ \E T \in Types : \E i \in 1..MaxStack : ReadUserdata(T, i)
    \/ Pop

SpecBridge == Init /\ [][NextBridge]_vars

(***************************************************************************)
(* The claims about the codec, checked under SpecCodec.                    *)
(***************************************************************************)
\* the kind a pushed value is read back as: &str is read as String
ReadKind(K) == IF K = "str" THEN "String" ELSE K

RoundTripKinds == IntKinds \cup FloatKinds \cup TextKinds \cup {"bool"}

\* C4 as stated: primitive round trip.  Every value of every primitive kind
\* can be pushed, and reading the pushed slot as the same kind gives Some of
\* the value pushed.
C4_RoundTripAll ==
    /\ (lastOp.op = "push" /\ lastOp.K \in RoundTripKinds) => lastOp.res = "ok"
    /\ (lastOp.op = "read" /\ lastOp.of # <<"none">>
          /\ lastOp.of[1] \in RoundTripKinds /\ lastOp.K = ReadKind(lastOp.of[1]))
       => lastOp.res = Some(lastOp.of[2])

\* C4 amended: the round trip holds for every integer kind, bool, f64, text
\* without a NUL byte, and every f32 that is no NaN.  A push of text with a
\* NUL byte panics, and no other push does; an f32 NaN reads back as a NaN,
\* its bits not necessarily the ones pushed.
C4_RoundTrip ==
    /\ (lastOp.op = "push" /\ lastOp.K \in RoundTripKinds)
       => (lastOp.res = "panic" <=>
             (lastOp.K \in TextKinds /\ \E i \in 1..Len(lastOp.value) : lastOp.value[i] = 0))
    /\ (lastOp.op = "read" /\ lastOp.of # <<"none">>
          /\ lastOp.of[1] \in RoundTripKinds /\ lastOp.K = ReadKind(lastOp.of[1]))
       => IF lastOp.K = "f32" /\ lastOp.of[2][1] = "nan"
          THEN lastOp.res[1] = "Some" /\ lastOp.res[2][1] = "nan"
          ELSE lastOp.res = Some(lastOp.of[2])

\* C4 witness: the largest usize, which wraps to -1 as a lua_Integer, was
\* pushed and read back.
C4_Witness ==
    /\ lastOp.op = "read" /\ lastOp.K = "usize"
    /\ lastOp.of = <<"usize", MaxOf("usize")>>
    /\ lastOp.slot = VInt(0 - 1)
    /\ lastOp.res = Some(MaxOf("usize"))

\* the slot holds a value of the kind K names: a number for the integer and
\* float kinds, a string for text, a boolean for bool
HoldsKind(x, K) ==
    CASE K \in IntKinds \cup FloatKinds -> x.k \in {"int", "flt"}
      [] K = "String" -> x.k = "str"
      [] K = "bool" -> x.k = "bool"
      [] K = "unit" -> TRUE

\* C5 as stated: a mismatch is None.  Decoding a slot as kind K gives None
\* whenever the slot does not hold a value of kind K, and unit decode succeeds.
C5_MismatchIsNone ==
    lastOp.op = "read" =>
        /\ ~HoldsKind(lastOp.slot, lastOp.K) => lastOp.res = None
        /\ lastOp.K = "unit" => lastOp.res = Some(<<>>)

\* a byte no Lua numeral holds: neither a digit or hexadecimal digit (which
\* covers the exponent mark e), nor white space, a sign, the point, or the
\* marks x and p of the hexadecimal forms
NotNumeralByte(b) ==
    ~(\/ IsDigit(b) \/ IsSpace(b)
      \/ b \in 65..70 \/ b \in 97..102
      \/ b \in {43, 45, 46, 88, 120, 80, 112})

\* C5 amended: decoding as K gives None whenever the slot holds neither a
\* value of kind K nor one the interpreter converts to it.  Boolean decode is
\* strict: None exactly for the slots that are not boolean.  Integer and float
\* decode give None for nil and boolean slots and for strings with a byte no
\* numeral holds, but a number or a numeric string is converted.  Text decode
\* gives None for nil and boolean slots, but a number is converted to its
\* text.  Unit decode succeeds on every slot.
C5_MismatchOrCoercion ==
    lastOp.op = "read" =>
        LET x == lastOp.slot
            K == lastOp.K
        IN  /\ K = "bool" => (lastOp.res = None <=> x.k # "bool")
            /\ (K \in IntKinds \cup FloatKinds /\ x.k \notin {"int", "flt", "str"})
               => lastOp.res = None
            /\ (K \in IntKinds \cup FloatKinds /\ x.k = "str"
                  /\ \E i \in 1..Len(x.v) : NotNumeralByte(x.v[i]))
               => lastOp.res = None
            /\ (K \in FloatKinds /\ x.k \in {"int", "flt"}) => lastOp.res # None
            /\ (K \in IntKinds /\ x.k = "int") => lastOp.res # None
            /\ K = "String" => (lastOp.res = None <=> x.k \notin {"str", "int", "flt"})
            /\ K = "unit" => lastOp.res = Some(<<>>)

\* C5 witness: a string slot was decoded as bool and gave None.
C5_Witness ==
    /\ lastOp.op = "read" /\ lastOp.K = "bool"
    /\ lastOp.slot.k = "str"
    /\ lastOp.res = None

(***************************************************************************)
(* The claims about the carrier, checked under SpecCarrier.                *)
(***************************************************************************)
\* C1: type-identity soundness of read_userdata.  read::<T> gives None on a
\* slot that holds no userdata, on a userdata without metatable and on a slot
\* push_userdata::<U> produced for another type U, and gives Some of the
\* slot's own block on a slot push_userdata::<T> produced.
C1_TypeIdentitySound ==
    lastOp.op = "read_userdata" =>
        LET x == lastOp.slot
        IN  /\ x.k \notin {"udata", "light"} => lastOp.res = None
            /\ (x.k = "udata" /\ udata[x.v].meta = 0) => lastOp.res = None
            /\ (x.k = "udata" /\ udata[x.v].from = "push_userdata")
               => IF udata[x.v].T = lastOp.T
                  THEN lastOp.res = Some(<<"block", x.v>>)
                  ELSE lastOp.res = None

\* the blocks that hold an owned value
Owned(blk) == blk.from \in {"push_userdata", "constructor"}

\* C2: finalizer once.  The value in an owned block is torn down at most
\* once, however often the finalizer is invoked, and exactly once by the time
\* the collector has freed a block it had marked for finalization.
C2_FinalizerOnce ==
    \A id \in 1..Len(udata) :
        Owned(udata[id]) =>
            /\ udata[id].torn <= 1
            /\ (udata[id].freed /\ udata[id].marked) => udata[id].torn = 1

\* C3: reference mode.  The metatable of every slot push_lightuserdata
\* produced carries the tag of the slot's own type (as long as no builder
\* wrote the tag entry) and no "__gc" entry, and the host storage pushed by
\* reference stays valid.
C3_ReferenceTaggedNoFinalizer ==
    \A i \in 1..Len(stack) :
        stack[i].k = "light" =>
            /\ lightMeta # 0
            /\ K_typeid \notin tables[lightMeta].wrote
               => RawGet(tables, lightMeta, K_typeid)
                    = VStr(FormatTypeId(HostType(stack[i].v)))
            /\ K_gc \notin DOMAIN tables[lightMeta].data
            /\ host[stack[i].v] = "valid"

(***************************************************************************)
(* The claims about the registrar, checked under Spec.                     *)
(***************************************************************************)
RegistrarOps == {"ensure_matetable", "create", "def", "register"}

\* the registration state of T in heap h under globals g
RegState(T, h, g) ==
    LET d == QueryTable(g, NameOf(T))
    IN  IF d = 0 THEN "Unregistered"
        ELSE IF h[d].meta # 0 /\ RawGet(h, h[d].meta, K_call) = ConstructorClosure(T)
             THEN "ConstructorInstalled"
             ELSE "MetatableEnsured"

Rank(st) ==
    CASE st = "Unregistered" -> 0
      [] st = "MetatableEnsured" -> 1
      [] st = "ConstructorInstalled" -> 2

\* the tables that carry a "__typeid" entry: the descriptors ensure_matetable built
Descriptors(h) == {i \in 1..Len(h) : K_typeid \in DOMAIN h[i].data}

\* C6: ensure_matetable is idempotent.  After the call a table is published
\* under the type's name and at most one descriptor was ever built; a call
\* made when a table is already published changes neither the heap (tag,
\* finalizer, field/method table), nor the globals, nor the registration state.
C6_EnsureIdempotent ==
    [][lastOp'.op = "ensure_matetable" =>
          LET T == lastOp'.T
          IN  /\ QueryTable(globals', NameOf(T)) # 0
              /\ Cardinality(Descriptors(tables')) <= 1
              /\ QueryTable(globals, NameOf(T)) # 0
                 => /\ tables' = tables
                    /\ globals' = globals
                    /\ defs' = defs
                    /\ RegState(T, tables', globals') = RegState(T, tables, globals)]_vars

\* C6 witness: ensure_matetable was called on a published descriptor that has
\* a constructor installed and a field defined.
C6_Witness ==
    /\ lastOp.op = "ensure_matetable"
    /\ RegState("A", tables, globals) = "ConstructorInstalled"
    /\ Cardinality(Descriptors(tables)) = 1
    /\ QueryIndex(tables, QueryTable(globals, NameOf("A"))) # 0
    /\ RawGet(tables, QueryIndex(tables, QueryTable(globals, NameOf("A"))), <<120>>) = VInt(1)

\* C7: the registrar state machine.  create ends in ConstructorInstalled from
\* every state; a create on a type already in ConstructorInstalled leaves the
\* globals, the descriptor's entries and every other table that existed as
\* they were, the new metatable holding the same constructor hook; and no
\* registrar call moves a type to an earlier state.
C7_RegistrarStates ==
    [][lastOp'.op \in RegistrarOps =>
          LET T == lastOp'.T
              d == QueryTable(globals, NameOf(T))
          IN  /\ Rank(RegState(T, tables', globals')) >= Rank(RegState(T, tables, globals))
              /\ lastOp'.op = "create"
                 => RegState(T, tables', globals') = "ConstructorInstalled"
              /\ (lastOp'.op = "create"
                    /\ RegState(T, tables, globals) = "ConstructorInstalled")
                 => /\ globals' = globals
                    /\ tables'[d].data = tables[d].data
                    /\ tables'[tables'[d].meta].data = tables[tables[d].meta].data
                    /\ \A i \in 1..Len(tables) : i # d => tables'[i] = tables[i]]_vars

\* C7 witness: create was called a second time and the constructor then ran.
C7_Witness ==
    /\ lastOp.op = "call_constructor"
    /\ Cardinality({i \in 1..Len(tables) : K_call \in DOMAIN tables[i].data}) = 2
    /\ RegState("A", tables, globals) = "ConstructorInstalled"
    /\ \E id \in 1..Len(udata) : udata[id].from = "constructor"

\* the value a script finds under name f in the type's field/method table
FieldLookup(T, f) ==
    LET d == QueryTable(globals, NameOf(T))
    IN  IF QueryIndex(tables, d) = 0 THEN VNil
        ELSE RawGet(tables, QueryIndex(tables, d), f)

\* C8: the field/method table is last-write-wins.  For a published type whose
\* def and register calls all came while it was published, every name is
\* bound in the field/method table to the value the latest def or register
\* gave for it, and a name never defined is absent.
C8_LastWriteWins ==
    \A T \in RegTypes :
        (QueryTable(globals, NameOf(T)) # 0 /\ ~defs[T].dropped)
        => \A f \in FieldNames : FieldLookup(T, f) = defs[T].vals[f]

\* C8 witness: x was defined twice, last as 2, y was registered as a method,
\* on a descriptor whose constructor is installed.
C8_Witness ==
    /\ lastOp.op = "def" /\ lastOp.val = VInt(2)
    /\ ~defs["A"].dropped
    /\ defs["A"].vals[<<120>>] = VInt(2)
    /\ defs["A"].vals[<<121>>].k = "cfunc"
    /\ FieldLookup("A", <<120>>) = VInt(2)
    /\ RegState("A", tables, globals) = "ConstructorInstalled"

\* C9: the registrar changes the globals only additively.  No registrar
\* call replaces a value already bound to the type's name; when that value is
\* no table the call changes nothing.
C9_GlobalsOnlyAdded ==
    [][lastOp'.op \in RegistrarOps =>
          \A n \in Names :
              globals[n].k # "nil" =>
                  /\ globals'[n] = globals[n]
                  /\ globals[n].k # "table" => tables' = tables]_vars

\* C10: stack neutrality.  read_userdata, ensure_matetable, create, def and
\* register return with the stack as it was on entry.
C10_StackNeutral ==
    [][lastOp'.op \in RegistrarOps \cup {"read_userdata"} => stack' = stack]_vars

====
